---- MODULE Spec2Model ----
(***************************************************************************)
(* A model of fetch_logos.py: the brand -> logo resolution pipeline.       *)
(*                                                                         *)
(* Text is modelled as a sequence of one-character tokens, bytes as a      *)
(* sequence of numbers 0..255.  A character outside ASCII is a token that  *)
(* names it ("U+0105").                                                    *)
(***************************************************************************)
EXTENDS Naturals, Integers, Sequences, FiniteSets, TLC

VARIABLES
    \* ---- slugify driver
    slugIn, slugOut,
    \* ---- try_download driver
    dlResp, dlOut,
    \* ---- normalize_png driver
    normIn, normOut,
    \* ---- candidate_domains driver
    candBrand, candRuns,
    \* ---- main / process_brand
    PIL_OK, CAIRO_OK, hashSeed,
    rows, idx, pc, brand, entity, domain, rec, res, calls, contextHost,
    meta, fs, writes, metadata

slugVars == <<slugIn, slugOut>>
dlVars   == <<dlResp, dlOut>>
normVars == <<normIn, normOut>>
candVars == <<candBrand, candRuns>>
mainVars == <<PIL_OK, CAIRO_OK, hashSeed, rows, idx, pc, brand, entity, domain,
              rec, res, calls, contextHost, meta, fs, writes, metadata>>
vars == <<slugVars, dlVars, normVars, candVars, mainVars>>

None == "None"

(***************************************************************************)
(* Characters                                                              *)
(***************************************************************************)
UpperLetters == <<"A","B","C","D","E","F","G","H","I","J","K","L","M",
                  "N","O","P","Q","R","S","T","U","V","W","X","Y","Z">>
LowerLetters == <<"a","b","c","d","e","f","g","h","i","j","k","l","m",
                  "n","o","p","q","r","s","t","u","v","w","x","y","z">>
Digits == {"0","1","2","3","4","5","6","7","8","9"}

\* The non-ASCII letters DIACRITIC_TABLE names, upper case and lower case
UpperDiacritics == <<
    "U+0104", "U+010C", "U+0118", "U+0116", "U+012E", "U+0160", "U+0172", "U+016A",
    "U+017D", "U+0141", "U+015A", "U+0143", "U+017B", "U+0179", "U+00D3", "U+0106" >>
LowerDiacritics == <<
    "U+0105", "U+010D", "U+0119", "U+0117", "U+012F", "U+0161", "U+0173", "U+016B",
    "U+017E", "U+0142", "U+015B", "U+0144", "U+017C", "U+017A", "U+00F3", "U+0107" >>
\* the ASCII letter DIACRITIC_TABLE gives each of them
DiacriticAscii == <<
    "a", "c", "e", "e", "i", "s", "u", "u", "z", "l", "s", "n", "z", "z", "o", "c" >>

Range(s) == {s[i] : i \in 1..Len(s)}

LowerAlnum == Range(LowerLetters) \cup Digits
Alnum      == LowerAlnum \cup Range(UpperLetters)

\* str.lower() on one character
IndexOf(s, c) == CHOOSE i \in 1..Len(s) : s[i] = c

ToLower(c) ==
    IF c \in Range(UpperLetters) THEN LowerLetters[IndexOf(UpperLetters, c)]
    ELSE IF c \in Range(UpperDiacritics) THEN LowerDiacritics[IndexOf(UpperDiacritics, c)]
    ELSE c

\* str.lower()
LowerStr(s) == [i \in 1..Len(s) |-> ToLower(s[i])]

\* Whether c is in the character class: the set cs, or with neg its complement
InClass(c, cs, neg) == (c \in cs) # neg

\* re.sub(r"[cls]+", rep, s): every maximal run of characters of the class becomes rep
SubRuns(s, cs, neg, rep) ==
    LET F[i \in 0..Len(s)] ==
            IF i = 0 THEN <<>>
            ELSE IF ~InClass(s[i], cs, neg) THEN Append(F[i-1], s[i])
            ELSE IF i > 1 /\ InClass(s[i-1], cs, neg) THEN F[i-1]
            ELSE F[i-1] \o rep
    IN  F[Len(s)]

\* re.findall(r"[cls]+", s): the maximal runs of characters of the class, in order
FindRuns(s, cs, neg) ==
    LET F[i \in 0..Len(s)] ==
            IF i = 0 THEN <<>>
            ELSE IF ~InClass(s[i], cs, neg) THEN F[i-1]
            ELSE IF i > 1 /\ InClass(s[i-1], cs, neg)
                 THEN [F[i-1] EXCEPT ![Len(F[i-1])] = Append(@, s[i])]
                 ELSE Append(F[i-1], <<s[i]>>)
    IN  F[Len(s)]

\* str.strip(chars)
StripLeft(s, cs) ==
    LET n == Len(s)
        k == IF \A i \in 1..n : s[i] \in cs THEN n + 1
             ELSE CHOOSE i \in 1..n : s[i] \notin cs /\ \A j \in 1..(i-1) : s[j] \in cs
    IN  SubSeq(s, k, n)

StripRight(s, cs) ==
    LET n == Len(s)
        k == IF \A i \in 1..n : s[i] \in cs THEN 0
             ELSE CHOOSE i \in 1..n : s[i] \notin cs /\ \A j \in (i+1)..n : s[j] \in cs
    IN  SubSeq(s, 1, k)

\* a strip that forgets the right end
StripLeftOnly(s, cs) == StripLeft(s, cs)

Strip(s, cs) == StripRight(StripLeft(s, cs), cs)

\* str.startswith / str.endswith / "x in s"
StartsWith(s, p) == Len(p) <= Len(s) /\ SubSeq(s, 1, Len(p)) = p
EndsWith(s, p)   == Len(p) <= Len(s) /\ SubSeq(s, Len(s) - Len(p) + 1, Len(s)) = p
Contains(s, p)   == \E i \in 1..(Len(s) - Len(p) + 1) : SubSeq(s, i, i + Len(p) - 1) = p

\* "".join(parts) and sep.join(parts)
Join(parts, sep) ==
    LET F[i \in 0..Len(parts)] ==
            IF i = 0 THEN <<>>
            ELSE IF i = 1 THEN parts[1]
            ELSE F[i-1] \o sep \o parts[i]
    IN  F[Len(parts)]

(***************************************************************************)
(* slugify                                                                 *)
(***************************************************************************)
slugify(s) ==
    LET s1 == SubRuns(LowerStr(s), LowerAlnum, TRUE, <<"-">>)
    IN  Strip(SubRuns(s1, {"-"}, FALSE, <<"-">>), {"-"})

(***************************************************************************)
(* Driver of slugify: an input from a bounded alphabet, slugified and then *)
(* slugified again.                                                        *)
(***************************************************************************)
MaxSlugLen == 4
SlugAlphabet == {"a", "B", "7", "-", " ", "_"}
SeqsUpTo(S, n) == UNION {[1..k -> S] : k \in 0..n}

SlugIdle == slugIn = <<>> /\ slugOut = <<>>

SlugInit == slugIn \in SeqsUpTo(SlugAlphabet, MaxSlugLen) /\ slugOut = <<>>

SlugOnce ==
    /\ Len(slugOut) = 0
    /\ slugOut' = <<slugify(slugIn)>>
    /\ UNCHANGED slugIn

SlugTwice ==
    /\ Len(slugOut) = 1
    /\ slugOut' = Append(slugOut, slugify(slugOut[1]))
    /\ UNCHANGED slugIn

(***************************************************************************)
(* Byte sniffing: is_svg_bytes, is_png_bytes, is_jpg_bytes                 *)
(***************************************************************************)
SVG_HEAD_LEN == 200

Take(b, n) == SubSeq(b, 1, IF Len(b) < n THEN Len(b) ELSE n)

\* bytes.decode("utf-8", "ignore").lower(), on payloads whose bytes >= 128
\* never form a valid multi-byte sequence: those bytes are dropped, and A-Z
\* (65..90) becomes a-z
DecodeLower(b) ==
    LET ascii == SelectSeq(b, LAMBDA x : x < 128)
    IN  [i \in 1..Len(ascii) |->
            IF ascii[i] >= 65 /\ ascii[i] <= 90 THEN ascii[i] + 32 ELSE ascii[i]]

B_XML == <<60, 63, 120, 109, 108>>     \* b"<?xml"
B_SVG == <<60, 115, 118, 103>>         \* "<svg"
B_PNG == <<137, 80, 78, 71>>           \* b"\x89PNG"
B_JPG == <<255, 216, 255>>             \* b"\xff\xd8\xff"

is_svg_bytes(b) ==
    LET head == DecodeLower(Take(b, SVG_HEAD_LEN))
    IN  Take(b, 5) = B_XML \/ Contains(head, B_SVG)

is_png_bytes(b) == Take(b, 4) = B_PNG

is_jpg_bytes(b) == Take(b, 3) = B_JPG

(***************************************************************************)
(* try_download.  A response is [ok |-> FALSE] (http_get raised) or a      *)
(* record [ok, content, ctype, url]: the body, the Content-Type header     *)
(* ("" when absent) and the final URL after redirects.  A body is a record *)
(* [bytes, w, h]: its bytes and, when an image library can decode it, its  *)
(* pixel size (w = 0: not decodable).  Python's None is "None" for a       *)
(* format, NoneStr for text and NoneRec for a structured value.            *)
(***************************************************************************)
NoneStr == <<"None">>
NoneRec == [none |-> TRUE]

FailedResp == [ok |-> FALSE]

CT_IMAGE_SVG  == <<"i","m","a","g","e","/","s","v","g">>
CT_IMAGE_PNG  == <<"i","m","a","g","e","/","p","n","g">>
CT_IMAGE_JPEG == <<"i","m","a","g","e","/","j","p","e","g">>

NoAsset3 == <<None, NoneRec, NoneRec>>

try_download(resp) ==
    IF ~resp.ok THEN NoAsset3
    ELSE LET data  == resp.content
             ctype == LowerStr(resp.ctype)
         IN  IF is_svg_bytes(data.bytes) \/ Contains(ctype, CT_IMAGE_SVG)
                 THEN <<"svg", data, resp.url>>
             ELSE IF is_png_bytes(data.bytes) \/ Contains(ctype, CT_IMAGE_PNG)
                 THEN <<"png", data, resp.url>>
             ELSE IF Contains(ctype, CT_IMAGE_JPEG) \/ is_jpg_bytes(data.bytes)
                 THEN <<"jpg", data, resp.url>>
             ELSE NoAsset3

(***************************************************************************)
(* Driver of try_download: one response from a bounded set of bodies,      *)
(* declared types and final URLs.                                          *)
(***************************************************************************)
Spaces(n) == [i \in 1..n |-> 32]

DlBodies == {
    B_PNG \o <<13, 10, 26, 10>>,            \* a PNG file
    B_JPG \o <<224, 0, 16>>,                \* a JPEG file
    B_XML \o <<32, 118, 101, 114>>,         \* "<?xml ver"
    <<60, 83, 86, 71, 62>>,                 \* "<SVG>"
    <<60, 104, 116, 109, 108, 62>>,         \* "<html>"
    <<>>,                                   \* an empty body
    <<137, 80, 78>>,                        \* a PNG magic cut short
    B_PNG \o <<116, 69, 88, 116>> \o B_SVG, \* a PNG whose text chunk holds "<svg"
    Spaces(SVG_HEAD_LEN) \o B_SVG,          \* "<svg" past the sniffed head
    Spaces(SVG_HEAD_LEN - 4) \o B_SVG       \* "<svg" ending the sniffed head
}

DlTypes == {
    <<>>,
    CT_IMAGE_SVG \o <<"+","x","m","l">>,
    <<"I","M","A","G","E","/","P","N","G">>,
    CT_IMAGE_JPEG \o <<";"," ","q">>,
    <<"t","e","x","t","/","h","t","m","l">>
}

DlUrls == { [host |-> <<"a",".","c">>, path |-> <<"/","l">>],
            [host |-> <<"o",".","c">>, path |-> <<"/","l">>] }

DlIdle == dlResp = FailedResp /\ dlOut = <<>>

DlInit ==
    /\ dlResp \in {FailedResp} \cup
            { [ok |-> TRUE, content |-> [bytes |-> b, w |-> 0, h |-> 0],
               ctype |-> t, url |-> u] : b \in DlBodies, t \in DlTypes, u \in DlUrls }
    /\ dlOut = <<>>

DlCall ==
    /\ dlOut = <<>>
    /\ dlOut' = <<try_download(dlResp)>>
    /\ UNCHANGED dlResp

(***************************************************************************)
(* Rendering and normalization: svg_to_png, normalize_png, jpg_to_png.     *)
(* What an image library writes is a body [bytes, w, h, op, arg]: a PNG of *)
(* w x h pixels made by op from the body arg.                              *)
(***************************************************************************)
PNG_CANVAS     == 1024
SVG_PNG_TARGET == 2048

Min(a, b) == IF a < b THEN a ELSE b
Max(a, b) == IF a > b THEN a ELSE b

Encoded(op, arg, w, h) ==
    [bytes |-> B_PNG \o <<13, 10, 26, 10>>, w |-> w, h |-> h, op |-> op, arg |-> arg]

\* scale = min(size / w, size / h, 1.0) is size / max(w, h) when that is below 1.
\* The size img.resize is asked for, (int(w * scale), int(h * scale)), in exact
\* arithmetic; the image's own size when scale is 1.0
ResizedSize(w, h, size) ==
    IF Max(w, h) > size
    THEN <<(w * size) \div Max(w, h), (h * size) \div Max(w, h)>>
    ELSE <<w, h>>

\* Image.resize raises ValueError("height and width must be > 0") for an empty size
ResizeRaises(w, h, size) ==
    Max(w, h) > size /\ (ResizedSize(w, h, size)[1] < 1 \/ ResizedSize(w, h, size)[2] < 1)

\* normalize_png(png_bytes, size) with the capability flag pil = PIL_OK. same:
\* whether re-encoding an image that already fills the canvas gives back its bytes
normalize_png(b, size, pil, same) ==
    IF ~pil THEN b
    ELSE IF b.w = 0 THEN b                         \* Image.open raises
    ELSE IF ResizeRaises(b.w, b.h, size) THEN b    \* img.resize raises
    ELSE IF same /\ b.w = size /\ b.h = size THEN b
    ELSE Encoded("normalize_png", b, size, size)

jpg_to_png(b, pil) ==
    IF ~pil THEN b
    ELSE IF b.w = 0 THEN b
    ELSE Encoded("jpg_to_png", b, b.w, b.h)

\* svg_to_png(svg_bytes, px) with cairo = CAIRO_OK. render: the height cairosvg
\* renders, or 0 when it raises
svg_to_png(b, px, cairo, render) ==
    IF ~cairo THEN NoneRec
    ELSE IF render = 0 THEN NoneRec
    ELSE Encoded("svg2png", b, px, render)

(***************************************************************************)
(* Driver of normalize_png: one decodable image around the canvas size and *)
(* its multiples.                                                          *)
(***************************************************************************)
MaxMul == 3
MaxOff == 1

NormDims ==
    { v \in { k * PNG_CANVAS + d : k \in 0..MaxMul, d \in (-MaxOff)..MaxOff } : v >= 1 }

NormIdle == normIn = NoneRec /\ normOut = <<>>

NormInit ==
    /\ normIn \in [ body : { [bytes |-> B_PNG \o <<13, 10, 26, 10>>, w |-> w, h |-> h] :
                                 w \in NormDims, h \in NormDims }
                           \cup { [bytes |-> B_PNG, w |-> 0, h |-> 0] },
                    pil : BOOLEAN ]
    /\ normOut = <<>>

NormCall ==
    /\ normOut = <<>>
    /\ \E same \in BOOLEAN :
          normOut' = <<normalize_png(normIn.body, PNG_CANVAS, normIn.pil, same)>>
    /\ UNCHANGED normIn

(***************************************************************************)
(* Domain guessing: normalize_brand_token, brand_tokens, candidate_domains *)
(***************************************************************************)
TLDS == <<
    <<"c","o","m">>, <<"e","u">>, <<"n","e","t">>,
    <<"o","r","g">>, <<"i","o">>, <<"c","o">>,
    <<"l","t">>, <<"p","l">>, <<"d","e">>,
    <<"f","r">>, <<"i","t">>, <<"e","s">>,
    <<"n","l">>, <<"s","e">>, <<"c","z">>,
    <<"s","k">>, <<"h","u">>, <<"d","k">>,
    <<"b","e">>, <<"a","t">>, <<"i","e">>,
    <<"f","i">>, <<"p","t">>, <<"r","o">>,
    <<"b","g">>, <<"h","r">>, <<"s","i">>,
    <<"l","v">>, <<"e","e">>, <<"g","r">>,
    <<"c","y">>, <<"l","u">>, <<"m","t">> >>

BRAND_PREFIXES == << <<>>, <<"g","e","t">>, <<"g","o">>, <<"m","y">> >>
BRAND_SUFFIXES == << <<>>, <<"a","p","p">>, <<"g","r","o","u","p">>,
                     <<"c","o","m","p","a","n","y">> >>

\* str.translate(DIACRITIC_TABLE) on one character
Translate(c) ==
    IF c \in Range(UpperDiacritics) THEN DiacriticAscii[IndexOf(UpperDiacritics, c)]
    ELSE IF c \in Range(LowerDiacritics) THEN DiacriticAscii[IndexOf(LowerDiacritics, c)]
    ELSE c

normalize_brand_token(s) ==
    LET t == [i \in 1..Len(s) |-> Translate(s[i])]
    IN  LowerStr(SubRuns(t, Alnum, TRUE, <<>>))

\* the elements of a sequence, each once, in first-seen order
Dedup(s) ==
    LET t     == s \o <<>>
        first == SelectSeq([i \in 1..Len(t) |-> i],
                           LAMBDA i : \A j \in 1..(i-1) : t[j] # t[i])
    IN  [k \in 1..Len(first) |-> t[first[k]]] \o <<>>

Flatten(ss) ==
    LET F[i \in 0..Len(ss)] == IF i = 0 THEN <<>> ELSE F[i-1] \o ss[i]
    IN  F[Len(ss)]

\* words: the runs of [a-zA-Z0-9] of brand.lower() of length >= 3
brand_words(b) == SelectSeq(FindRuns(LowerStr(b), Alnum, FALSE), LAMBDA w : Len(w) >= 3)

\* what brand_tokens adds to its set, in the order it adds it
token_insertions(b) ==
    LET base   == normalize_brand_token(b)
        combos == Flatten([p \in 1..Len(BRAND_PREFIXES) |->
                     [q \in 1..Len(BRAND_SUFFIXES) |->
                         BRAND_PREFIXES[p] \o base \o BRAND_SUFFIXES[q]]])
        parts  == FindRuns(LowerStr(b), LowerAlnum, FALSE)
        joined == Join([i \in 1..Len(parts) |-> normalize_brand_token(parts[i])], <<>>)
    IN  <<base>> \o brand_words(b)
        \o SelectSeq(combos, LAMBDA c : c # <<>>)
        \o (IF Len(parts) > 1 THEN <<joined, Join(parts, <<"-">>)>> ELSE <<>>)

\* list(tokens): a set of str iterates by slot, and the slot of a str is its hash,
\* which is salted per process (hash randomization).  Of the orders a process can
\* see, the model takes the rotations of the insertion order, one per seed.
SetOrder(s, seed) ==
    IF s = <<>> THEN s
    ELSE [i \in 1..Len(s) |-> s[((i - 1 + seed) % Len(s)) + 1]]

brand_tokens(b, seed) == SetOrder(Dedup(token_insertions(b)), seed)

\* cands: for t in tokens, for tld in TLDS, t.tld; then each once, first seen first
candidate_domains(b, seed) ==
    LET tokens == brand_tokens(b, seed)
        n      == Len(TLDS)
        cands  == [i \in 1..(Len(tokens) * n) |->
                      tokens[((i - 1) \div n) + 1] \o <<".">> \o TLDS[((i - 1) % n) + 1]]
    IN  Dedup(cands)

(***************************************************************************)
(* Driver of candidate_domains: the candidates of one brand, generated by  *)
(* several runs of the program, each a process with its own hash seed.     *)
(***************************************************************************)
MaxSeed == 1
MaxRuns == 5

AcmeRockets == <<"A","c","m","e"," ","R","o","c","k","e","t","s">>

CandBrands == { AcmeRockets, <<"A","b">>, <<"U+0160","o","k"," ","7">> }

CandIdle == candBrand = <<>> /\ candRuns = <<>>

CandInit == candBrand \in CandBrands /\ candRuns = <<>>

CandRun ==
    /\ Len(candRuns) < MaxRuns
    /\ \E seed \in 0..MaxSeed :
          candRuns' = Append(candRuns, candidate_domains(candBrand, seed))
    /\ UNCHANGED candBrand

(***************************************************************************)
(* The brand cells of the tables main reads, and their candidate domains,  *)
(* computed once for each cell and seed.                                   *)
(***************************************************************************)
\* strip("\t\n\r"): the space left out
WhitespaceSpaceless == {"\t", "\n", "\r"}

Whitespace == {" ", "\t", "\n", "\r"}

BrandSeq == << <<" ">>, <<"A","b">>, <<"c"," ","D">> >>

BrandCells == Range(BrandSeq)

CandidateMemo ==
    [k \in 1..(Len(BrandSeq) * (MaxSeed + 1)) |->
        candidate_domains(Strip(BrandSeq[((k - 1) \div (MaxSeed + 1)) + 1], Whitespace),
                          (k - 1) % (MaxSeed + 1))] \o <<>>

candidates_of(b, seed) ==
    LET known == { i \in 1..Len(BrandSeq) : Strip(BrandSeq[i], Whitespace) = b }
    IN  IF known # {} /\ seed <= MaxSeed
        THEN CandidateMemo[((CHOOSE i \in known : TRUE) - 1) * (MaxSeed + 1) + seed + 1]
        ELSE candidate_domains(b, seed)

(***************************************************************************)
(* Hosts and the entity                                                    *)
(*                                                                         *)
(* A URL is a record [host, path].  An entity is NoneRec or a record       *)
(* [P856, P2013, P4264, P6634, sitelink]: the official-website URL (or     *)
(* NoneRec) and whether each social identifier is present.                 *)
(***************************************************************************)
\* urlparse(url).hostname: the host, lower-cased
Hostname(url) == LowerStr(url.host)

\* the suffix test without its dot
is_same_or_suffix(url, dom) == EndsWith(Hostname(url), dom)

is_same_or_subdomain(url, dom) ==
    LET host == Hostname(url)
    IN  host = dom \/ EndsWith(host, <<".">> \o dom)

\* str.replace(pat, ""): every occurrence of pat removed, left to right
RECURSIVE RemoveAll(_, _)
RemoveAll(s, pat) ==
    IF Len(s) < Len(pat) \/ pat = <<>> THEN s
    ELSE IF StartsWith(s, pat) THEN RemoveAll(SubSeq(s, Len(pat) + 1, Len(s)), pat)
    ELSE <<s[1]>> \o RemoveAll(Tail(s), pat)

get_official_domain_from_entity(e) ==
    IF e = NoneRec THEN NoneStr
    ELSE IF e.P856 = NoneRec THEN NoneStr
    ELSE LET host == Hostname(e.P856)
         IN  IF host # <<>> /\ "." \in Range(host)
             THEN RemoveAll(host, <<"w","w","w",".">>)
             ELSE NoneStr

\* which profiles get_social_profiles_from_entity returns
get_social_profiles_from_entity(e) ==
    IF e = NoneRec THEN [facebook |-> FALSE, linkedin |-> FALSE]
    ELSE [facebook |-> e.P2013, linkedin |-> e.P4264 \/ e.P6634 \/ e.sitelink]

\* a verified guess preferred to the entity's own website
discover_candidate_first(b, e, seed, verified) ==
    IF verified # 0 THEN candidates_of(b, seed)[verified]
    ELSE get_official_domain_from_entity(e)

\* discover_official_domain.  verified: the place in the candidate list of the
\* first candidate that answers and whose homepage names the brand; 0 when none does
discover_official_domain(b, e, seed, verified) ==
    LET dom == get_official_domain_from_entity(e)
    IN  IF dom # NoneStr THEN dom
        ELSE IF verified = 0 THEN NoneStr
        ELSE candidates_of(b, seed)[verified]

(***************************************************************************)
(* The stages.  Each returns <<fmt, blob, src, official>>; the fifth       *)
(* element of the code's tuples, the quality, is dropped by every caller.  *)
(***************************************************************************)
NoAsset == <<None, NoneRec, NoneRec, FALSE>>

\* the first element of seq satisfying Hit, by index; 0 when there is none
FirstIndex(hits) ==
    IF \E i \in 1..Len(hits) : hits[i]
    THEN CHOOSE i \in 1..Len(hits) : hits[i] /\ \A j \in 1..(i-1) : ~hits[j]
    ELSE 0

LowerUrl(u) == LowerStr(u.host \o u.path)
UrlLen(u)   == Len(u.host) + Len(u.path)

IsSvgLink(u) == EndsWith(LowerUrl(u), <<".","s","v","g">>)
IsPngLink(u) == EndsWith(LowerUrl(u), <<".","p","n","g">>)

\* sorted(set(links), key = (0 if svg else 1, len(u))) over the links the pages
\* hold; found: those links as a set.  Links with equal keys come in either order
find_official_asset_links(dom, found) ==
    LET kept == { u \in found : is_same_or_subdomain(u, dom) /\ (IsSvgLink(u) \/ IsPngLink(u)) }
        Key(u) == <<IF IsSvgLink(u) THEN 0 ELSE 1, UrlLen(u)>>
        Before(u, v) == Key(u)[1] < Key(v)[1] \/ (Key(u)[1] = Key(v)[1] /\ Key(u)[2] < Key(v)[2])
    IN  { q \in [1..Cardinality(kept) -> kept] :
            /\ \A i, j \in 1..Cardinality(kept) : i < j => q[i] # q[j] /\ ~Before(q[j], q[i]) }

\* the loop over links or items: the first download that classifies
first_download(resps) ==
    LET i == FirstIndex([k \in 1..Len(resps) |-> try_download(resps[k])[1] # None])
    IN  IF i = 0 THEN NoAsset3 ELSE try_download(resps[i])

\* try_social_images.  fb, li: [og |-> whether the profile page has an og:image,
\* resp |-> the response to its download]
try_social_images(e, fb, li) ==
    LET social == get_social_profiles_from_entity(e)
        dfb    == try_download(fb.resp)
        dli    == try_download(li.resp)
    IN  IF e = NoneRec THEN NoAsset
        ELSE IF social.facebook /\ fb.og /\ dfb[1] # None
            THEN <<IF dfb[1] \in {"svg", "png"} THEN dfb[1] ELSE "jpg", dfb[2], dfb[3], TRUE>>
        ELSE IF social.linkedin /\ li.og /\ dli[1] # None
            THEN <<IF dli[1] \in {"svg", "png"} THEN dli[1] ELSE "jpg", dli[2], dli[3], TRUE>>
        ELSE NoAsset

\* one response classified by its bytes alone
sniff(resp) ==
    IF ~resp.ok THEN None
    ELSE IF is_svg_bytes(resp.content.bytes) THEN "svg"
    ELSE IF is_png_bytes(resp.content.bytes) THEN "png"
    ELSE IF is_jpg_bytes(resp.content.bytes) THEN "jpg"
    ELSE None

\* try_brandfetch_cdn: the two candidate URLs, resps their responses
try_brandfetch_cdn(resps) ==
    LET i == FirstIndex([k \in 1..Len(resps) |-> sniff(resps[k]) # None])
    IN  IF i = 0 THEN NoAsset
        ELSE <<sniff(resps[i]), resps[i].content, resps[i].url, TRUE>>

\* try_brandfetch_api.  key: BRANDFETCH_KEY is set; api: FALSE when the API call or
\* its JSON raises; formats: the src entries of the answer, each [src, resp]
try_brandfetch_api(key, api, formats) ==
    LET svgs   == SelectSeq(formats, LAMBDA f : IsSvgLink(f.src))
        pngs   == SelectSeq(formats, LAMBDA f : ~IsSvgLink(f.src) /\ IsPngLink(f.src))
        others == SelectSeq(formats, LAMBDA f : ~IsSvgLink(f.src) /\ ~IsPngLink(f.src))
        order  == svgs \o pngs \o others
        d      == first_download([k \in 1..Len(order) |-> order[k].resp])
    IN  IF ~key \/ ~api \/ d[1] = None THEN NoAsset
        ELSE <<d[1], d[2], d[3], TRUE>>

try_clearbit(resp) ==
    IF ~resp.ok THEN NoAsset
    ELSE IF is_png_bytes(resp.content.bytes) THEN <<"png", resp.content, resp.url, TRUE>>
    ELSE IF is_svg_bytes(resp.content.bytes) THEN <<"svg", resp.content, resp.url, TRUE>>
    ELSE NoAsset

\* try_wikimedia.  search: FALSE when the search raises; files: the matching
\* File: links in page order, each [page |-> its page loads, orig |-> it has an
\* a.internal link, resp |-> the response to the original's download].  A page
\* that does not load raises out of the loop: the stage ends empty
try_wikimedia(search, files) ==
    LET hit  == FirstIndex([k \in 1..Len(files) |->
                    ~files[k].page \/ (files[k].orig /\ try_download(files[k].resp)[1] # None)])
        d    == try_download(files[hit].resp)
    IN  IF ~search \/ hit = 0 THEN NoAsset
        ELSE IF ~files[hit].page THEN NoAsset
        ELSE <<d[1], d[2], d[3], FALSE>>

\* try_google_images.  cse: GOOGLE_CSE_ID and GOOGLE_CSE_KEY are set; search: FALSE
\* when the search raises; items: the hits, each [link |-> it has a link and a
\* context link, context |-> the context page's URL, named |-> that host's
\* homepage names the brand, resp |-> the response to the image's download]
try_google_images(dom, cse, search, items) ==
    LET hit  == FirstIndex([k \in 1..Len(items) |->
                    /\ items[k].link
                    /\ Hostname(items[k].context) # <<>>
                    /\ items[k].named
                    /\ try_download(items[k].resp)[1] # None])
        host == Hostname(items[hit].context)
        d    == try_download(items[hit].resp)
    IN  IF ~cse \/ ~search \/ hit = 0 THEN NoAsset
        ELSE <<d[1], d[2], d[3],
               dom # NoneStr /\ (host = dom \/ EndsWith(host, <<".">> \o dom))>>

\* host, the local of try_google_images, when the stage returns: the host of the
\* context page of the hit it returns; None when it returns empty
image_context_host(cse, search, items) ==
    LET hit == FirstIndex([k \in 1..Len(items) |->
                    /\ items[k].link
                    /\ Hostname(items[k].context) # <<>>
                    /\ items[k].named
                    /\ try_download(items[k].resp)[1] # None])
    IN  IF ~cse \/ ~search \/ hit = 0 THEN NoneStr ELSE Hostname(items[hit].context)

try_simple_icons(resp) ==
    IF ~resp.ok THEN NoAsset
    ELSE IF is_svg_bytes(resp.content.bytes) THEN <<"svg", resp.content, resp.url, FALSE>>
    ELSE NoAsset

\* try_google_cse.  items: the hits, each [link |-> it has a link, resp |-> the
\* response to its download]
try_google_cse(dom, cse, search, items) ==
    LET hit == FirstIndex([k \in 1..Len(items) |->
                    items[k].link /\ try_download(items[k].resp)[1] # None])
        d   == try_download(items[hit].resp)
    IN  IF ~cse \/ ~search \/ hit = 0 THEN NoAsset
        ELSE <<d[1], d[2], d[3],
               IF dom # NoneStr THEN is_same_or_subdomain(d[3], dom) ELSE FALSE>>

(***************************************************************************)
(* Saving.  The archive fs maps a path [dir, name, ext] (logos/<dir>/      *)
(* <name>.<ext>) to the body it holds.  A save gives the record, the       *)
(* archive and the paths written, in order.                                *)
(***************************************************************************)
WriteFile(f, path, data) ==
    [q \in (DOMAIN f) \cup {path} |-> IF q = path THEN data ELSE f[q]]

ArchivePath(ext, slug) == [dir |-> ext, name |-> slug, ext |-> ext]

\* every format filed as a png
save_raw_path_as_png(b, fmt) == ArchivePath("png", slugify(b))

\* save_raw: the path, under the extension png for a jpg
save_raw_path(b, fmt) == ArchivePath(IF fmt = "jpg" THEN "png" ELSE fmt, slugify(b))

\* the svg branch shared by the three copies of the save code: the preview is
\* rendered, normalized and written only when svg_to_png returns bytes
save_svg_preview(r, f, blob, cairo, pil, render, same) ==
    LET png  == svg_to_png(blob, SVG_PNG_TARGET, cairo, render)
        path == ArchivePath("png", r.slug)
    IN  IF png = NoneRec THEN [rec |-> r, fs |-> f, log |-> <<>>]
        ELSE [rec |-> [r EXCEPT !.saved_png = path],
              fs  |-> WriteFile(f, path, normalize_png(png, PNG_CANVAS, pil, same)),
              log |-> <<path>>]

\* the png branch: the normalized image is written over the saved file when it
\* differs from the downloaded bytes
save_png_normalized(r, f, blob, pil, same) ==
    LET norm == normalize_png(blob, PNG_CANVAS, pil, same)
        path == ArchivePath("png", r.slug)
    IN  IF norm # blob
        THEN [rec |-> r, fs |-> WriteFile(f, path, norm), log |-> <<path>>]
        ELSE [rec |-> r, fs |-> f, log |-> <<>>]

\* the jpg branch of the social and fallback saves
save_jpg_converted(r, f, blob, pil, same) ==
    LET png  == normalize_png(jpg_to_png(blob, pil), PNG_CANVAS, pil, same)
        path == ArchivePath("png", r.slug)
    IN  [rec |-> [r EXCEPT !.saved_png = path],
         fs  |-> WriteFile(f, path, png), log |-> <<path>>]

\* a save that wrote path and then did rest
Chain(path, rest) ==
    [rec |-> rest.rec, fs |-> rest.fs, log |-> <<path>> \o rest.log]

\* pipeline_official_first, stage 1, once a link has downloaded as fmt
save_official(r, f, b, dom, fmt, blob, src, cairo, pil, render, same) ==
    LET r1   == [r EXCEPT !.source_url = src, !.official = is_same_or_subdomain(src, dom)]
        path == save_raw_path(b, fmt)
        f1   == WriteFile(f, path, blob)
    IN  IF fmt = "svg"
            THEN Chain(path, save_svg_preview([r1 EXCEPT !.saved_svg = path], f1,
                                                  blob, cairo, pil, render, same))
        ELSE IF fmt = "png"
            THEN Chain(path, save_png_normalized([r1 EXCEPT !.saved_png = path], f1,
                                                     blob, pil, same))
        ELSE [rec |-> r1, fs |-> f1, log |-> <<path>>]

\* the save of pipeline_official_first's stage 2 (official is True there) and of
\* pipeline_with_fallbacks
save_asset(r, f, b, fmt, blob, src, official, cairo, pil, render, same) ==
    LET r1   == [r EXCEPT !.source_url = src, !.official = official]
        path == save_raw_path(b, fmt)
        f1   == WriteFile(f, path, blob)
    IN  IF fmt = "svg"
            THEN Chain(path, save_svg_preview([r1 EXCEPT !.saved_svg = path], f1,
                                                  blob, cairo, pil, render, same))
        ELSE IF fmt = "png"
            THEN Chain(path, save_png_normalized([r1 EXCEPT !.saved_png = path], f1,
                                                     blob, pil, same))
        ELSE save_jpg_converted(r1, f, blob, pil, same)

(***************************************************************************)
(* The world main runs in: the input table, the entities, the pages and    *)
(* the responses, each from a bounded set.                                 *)
(***************************************************************************)
NumRows  == 2
MaxProbe == 1
MaxItems == 2
MaxHits  == 1

Url(host, path) == [host |-> host, path |-> path]

SubHost(d)   == <<"c","d","n",".">> \o d
Lookalike(d) == <<"x">> \o d
OtherHost    == <<"o",".","n","e","t">>

MainEntities == {
    NoneRec,
    [P856 |-> Url(<<"w","w","w",".","a",".","c">>, <<"/">>),
     P2013 |-> TRUE, P4264 |-> FALSE, P6634 |-> FALSE, sitelink |-> FALSE],
    [P856 |-> NoneRec,
     P2013 |-> FALSE, P4264 |-> FALSE, P6634 |-> TRUE, sitelink |-> FALSE] }

BodySvg       == [bytes |-> B_SVG \o <<62>>, w |-> 0, h |-> 0]
BodyPng       == [bytes |-> B_PNG \o <<13, 10, 26, 10>>, w |-> 2048, h |-> 512]
BodyPngCanvas == [bytes |-> B_PNG \o <<13, 10, 26, 10>>, w |-> PNG_CANVAS, h |-> PNG_CANVAS]
BodyJpg       == [bytes |-> B_JPG \o <<224, 0, 16>>, w |-> 640, h |-> 480]
BodyHtml      == [bytes |-> <<60, 104, 116, 109, 108, 62>>, w |-> 0, h |-> 0]

MainBodies == {BodySvg, BodyPng, BodyPngCanvas, BodyJpg, BodyHtml}

Resp(b, u) == [ok |-> TRUE, content |-> b, ctype |-> <<>>, url |-> u]

Responses(urls) == {FailedResp} \cup { Resp(b, u) : b \in MainBodies, u \in urls }

\* A run finds an asset for at most MaxHits brands: once that many records have
\* a source, every request fails, every page is bare and every search raises
HitsLeft(done) ==
    Cardinality({ i \in 1..Len(done) : done[i].source_url # NoneRec }) < MaxHits

World(urls, done) == IF HitsLeft(done) THEN Responses(urls) ELSE {FailedResp}

\* the place of the candidate domain that passes the probe; 0: none does
Probes(done) == IF HitsLeft(done) THEN 0..MaxProbe ELSE {0}

\* whether a search or an API call answers
Answers(done) == IF HitsLeft(done) THEN BOOLEAN ELSE {FALSE}

\* a social profile page and its preview image; a profile the entity lacks is
\* never requested
Profiles(listed, done) ==
    IF listed THEN [og : Answers(done), resp : World({Url(OtherHost, <<"/","o","g">>)}, done)]
    ELSE {[og |-> FALSE, resp |-> FailedResp]}

\* the heights cairosvg renders; 0: it raises
RenderHeights == {0, SVG_PNG_TARGET}

\* the links the brand pages of a domain can hold, relative ones resolved
CrawlLinks(d) == {
    Url(d, <<"/","l",".","s","v","g">>),
    Url(SubHost(d), <<"/","l","o","g","o",".","P","N","G">>),
    Url(Lookalike(d), <<"/","l",".","s","v","g">>),
    Url(d, <<"/","l",".","j","p","g">>) }

PagesLinks(d, done) == IF HitsLeft(done) THEN SUBSET CrawlLinks(d) ELSE {{}}

\* the responses to the download of a link: it fails, or answers at the link or,
\* redirected, at a look-alike host
LinkResponses(u, done) == World({u, Url(Lookalike(u.host), u.path)}, done)

\* What the links answer, in the order they are tried.  Only the first link that
\* classifies decides the stage, so the answers are failures and one more answer
CrawlResponses(links, done) ==
    {[i \in 1..Len(links) |-> FailedResp]}
    \cup UNION { { [i \in 1..Len(links) |-> IF i = k THEN r ELSE FailedResp] :
                    r \in LinkResponses(links[k], done) } : k \in 1..Len(links) }

\* A list of links or hits, up to MaxItems long.  Only the first item that counts
\* decides a stage, so a list is the items skipped before it and one more item
ListsOf(skipped, items) ==
    {<<>>} \cup { Append(q, x) : q \in SeqsUpTo(skipped, MaxItems - 1), x \in items }

MetadataPath == [dir |-> "", name |-> "metadata", ext |-> "json"]

InitialRec(b, dom) ==
    [brand |-> b, slug |-> slugify(b), domain |-> dom, source_url |-> NoneRec,
     official |-> FALSE, saved_svg |-> NoneRec, saved_png |-> NoneRec, notes |-> NoneStr]

\* the note left unset
NoNoteForgotten == NoneStr

NoNote == <<"No official/site/social logo found.">>

EmptyFs == [q \in {} |-> NoneRec]

Logged(log, row) == [i \in 1..Len(log) |-> [path |-> log[i], row |-> row]]

pureVars == <<slugVars, dlVars, normVars, candVars>>
envVars  == <<PIL_OK, CAIRO_OK, hashSeed, rows>>

MainIdle ==
    /\ PIL_OK = FALSE /\ CAIRO_OK = FALSE /\ hashSeed = 0
    /\ rows = <<>> /\ idx = 1 /\ pc = "idle"
    /\ brand = <<>> /\ entity = NoneRec /\ domain = NoneStr
    /\ rec = NoneRec /\ res = NoAsset /\ calls = <<>> /\ contextHost = NoneStr
    /\ meta = <<>> /\ fs = EmptyFs /\ writes = <<>> /\ metadata = <<>>

MainInit ==
    /\ PIL_OK \in BOOLEAN /\ CAIRO_OK \in BOOLEAN /\ hashSeed \in 0..MaxSeed
    /\ rows \in [1..NumRows -> BrandCells]
    /\ idx = 1 /\ pc = "main"
    /\ brand = <<>> /\ entity = NoneRec /\ domain = NoneStr
    /\ rec = NoneRec /\ res = NoAsset /\ calls = <<>> /\ contextHost = NoneStr
    /\ meta = <<>> /\ fs = EmptyFs /\ writes = <<>> /\ metadata = <<>>

(***************************************************************************)
(* main                                                                    *)
(***************************************************************************)
\* a row whose brand cell is blank: continue
MainSkipBlank ==
    /\ pc = "main" /\ idx <= Len(rows)
    /\ Strip(rows[idx], Whitespace) = <<>>
    /\ idx' = idx + 1
    /\ UNCHANGED <<pureVars, envVars, contextHost, pc, brand, entity, domain, rec, res, calls,
                   meta, fs, writes, metadata>>

\* a row with a brand: rec = process_brand(brand)
MainStartBrand ==
    /\ pc = "main" /\ idx <= Len(rows)
    /\ Strip(rows[idx], Whitespace) # <<>>
    /\ brand' = Strip(rows[idx], Whitespace)
    /\ pc' = "process_brand"
    /\ UNCHANGED <<pureVars, envVars, contextHost, idx, entity, domain, rec, res, calls,
                   meta, fs, writes, metadata>>

\* meta.append(rec), and on to the next row; the brand's locals are gone
MainAppend ==
    /\ pc = "append"
    /\ meta' = Append(meta, rec)
    /\ idx' = idx + 1
    /\ pc' = "main"
    /\ brand' = <<>> /\ entity' = NoneRec /\ domain' = NoneStr
    /\ rec' = NoneRec /\ res' = NoAsset /\ calls' = <<>> /\ contextHost' = NoneStr
    /\ UNCHANGED <<pureVars, envVars, fs, writes, metadata>>

\* after the last row: metadata.json is written
MainWriteMetadata ==
    /\ pc = "main" /\ idx > Len(rows)
    /\ metadata' = Append(metadata, meta)
    /\ writes' = Append(writes, [path |-> MetadataPath, row |-> 0])
    /\ pc' = "done"
    /\ UNCHANGED <<pureVars, envVars, contextHost, idx, brand, entity, domain, rec, res, calls,
                   meta, fs>>

(***************************************************************************)
(* process_brand, pipeline_with_fallbacks, pipeline_official_first         *)
(***************************************************************************)
ProcessBrand ==
    /\ pc = "process_brand"
    /\ \E e \in MainEntities, verified \in Probes(meta) :
          /\ entity' = e
          /\ domain' = discover_official_domain(brand, e, hashSeed, verified)
    /\ pc' = "official_first"
    /\ UNCHANGED <<pureVars, envVars, contextHost, idx, brand, rec, res, calls, meta, fs, writes, metadata>>

\* stage 1, the crawl: the links are downloaded in order until one classifies
OfficialCrawl ==
    /\ pc = "official_first"
    /\ rec' = InitialRec(brand, domain)
    /\ IF domain = NoneStr
       THEN /\ pc' = "social"
            /\ UNCHANGED <<res, calls>>
       ELSE /\ calls' = Append(calls, "find_official_asset_links")
            /\ \E found \in PagesLinks(domain, meta) :
               \E links \in find_official_asset_links(domain, found) :
               \E resps \in CrawlResponses(links, meta) :
                  LET d == first_download(resps)
                  IN  /\ res' = <<d[1], d[2], d[3], FALSE>>
                      /\ pc' = IF d[1] # None THEN "official_save" ELSE "social"
    /\ UNCHANGED <<pureVars, envVars, contextHost, idx, brand, entity, domain, meta, fs, writes, metadata>>

\* stage 1, the link that downloaded: recorded, saved, returned
OfficialSave ==
    /\ pc = "official_save"
    /\ \E render \in RenderHeights, same \in BOOLEAN :
          LET sv == save_official(rec, fs, brand, domain, res[1], res[2], res[3],
                                  CAIRO_OK, PIL_OK, render, same)
          IN  /\ rec' = sv.rec
              /\ fs' = sv.fs
              /\ writes' = writes \o Logged(sv.log, idx)
    /\ pc' = "append"
    /\ UNCHANGED <<pureVars, envVars, contextHost, idx, brand, entity, domain, res, calls, meta, metadata>>

\* stage 2, the social preview image; when it is empty the record gets its note
\* and pipeline_with_fallbacks goes on to the fallback chain
Social ==
    /\ pc = "social"
    /\ calls' = Append(calls, "try_social_images")
    /\ \E fb \in Profiles(get_social_profiles_from_entity(entity).facebook, meta),
          li \in Profiles(get_social_profiles_from_entity(entity).linkedin, meta) :
          LET r == try_social_images(entity, fb, li)
          IN  /\ res' = r
              /\ IF r[1] # None
                 THEN pc' = "social_save" /\ UNCHANGED rec
                 ELSE /\ rec' = [rec EXCEPT !.notes = NoNote]
                      /\ pc' = IF domain # NoneStr THEN "brandfetch_cdn" ELSE "wikimedia"
    /\ UNCHANGED <<pureVars, envVars, contextHost, idx, brand, entity, domain, meta, fs, writes, metadata>>

SocialSave ==
    /\ pc = "social_save"
    /\ \E render \in RenderHeights, same \in BOOLEAN :
          LET sv == save_asset(rec, fs, brand, res[1], res[2], res[3], TRUE,
                               CAIRO_OK, PIL_OK, render, same)
          IN  /\ rec' = sv.rec
              /\ fs' = sv.fs
              /\ writes' = writes \o Logged(sv.log, idx)
    /\ pc' = "append"
    /\ UNCHANGED <<pureVars, envVars, contextHost, idx, brand, entity, domain, res, calls, meta, metadata>>

(***************************************************************************)
(* The fallback chain of pipeline_with_fallbacks.  A stage runs when none  *)
(* before it gave a format; the first format found goes to the save.       *)
(***************************************************************************)
\* a fallback stage runs only "if not fmt"; with a format the save follows
ProceedAlways(fmt, next, save) == next

Proceed(fmt, next, save) == IF fmt = None THEN next ELSE save

VendorUrl == Url(OtherHost, <<"/","v">>)

\* what an environment variable holds: set or not
EnvSet == BOOLEAN

BrandfetchCdn ==
    /\ pc = "brandfetch_cdn"
    /\ calls' = Append(calls, "try_brandfetch_cdn")
    /\ \E resps \in [1..2 -> World({VendorUrl}, meta)] :
          LET r == try_brandfetch_cdn(resps)
          IN  /\ res' = r
              /\ pc' = Proceed(r[1], "brandfetch_api", "save")
    /\ UNCHANGED <<pureVars, envVars, contextHost, idx, brand, entity, domain, rec, meta, fs, writes, metadata>>

ApiSrcs == { Url(OtherHost, <<"/","a",".","s","v","g">>),
             Url(OtherHost, <<"/","a",".","p","n","g">>),
             Url(OtherHost, <<"/","a">>) }

ApiFormats(done) ==
    UNION { { [src |-> u, resp |-> r] : r \in World({u}, done) } : u \in ApiSrcs }

ApiSkipped == { [src |-> u, resp |-> FailedResp] : u \in ApiSrcs }

BrandfetchApi ==
    /\ pc = "brandfetch_api"
    /\ calls' = Append(calls, "try_brandfetch_api")
    /\ \E key \in EnvSet, api \in Answers(meta) :
       \E formats \in IF key /\ api THEN ListsOf(ApiSkipped, ApiFormats(meta)) ELSE {<<>>} :
          LET r == try_brandfetch_api(key, api, formats)
          IN  /\ res' = r
              /\ pc' = Proceed(r[1], "clearbit", "save")
    /\ UNCHANGED <<pureVars, envVars, contextHost, idx, brand, entity, domain, rec, meta, fs, writes, metadata>>

Clearbit ==
    /\ pc = "clearbit"
    /\ calls' = Append(calls, "try_clearbit")
    /\ \E resp \in World({VendorUrl}, meta) :
          LET r == try_clearbit(resp)
          IN  /\ res' = r
              /\ pc' = Proceed(r[1], "wikimedia", "save")
    /\ UNCHANGED <<pureVars, envVars, contextHost, idx, brand, entity, domain, rec, meta, fs, writes, metadata>>

WikiSkipped ==
    { [page |-> TRUE, orig |-> FALSE, resp |-> FailedResp],
      [page |-> TRUE, orig |-> TRUE,  resp |-> FailedResp] }

WikiFiles(done) ==
    { [page |-> FALSE, orig |-> FALSE, resp |-> FailedResp] }
    \cup WikiSkipped
    \cup { [page |-> TRUE, orig |-> TRUE, resp |-> r] : r \in World({VendorUrl}, done) }

Wikimedia ==
    /\ pc = "wikimedia"
    /\ calls' = Append(calls, "try_wikimedia")
    /\ \E search \in Answers(meta) :
       \E files \in IF search THEN ListsOf(WikiSkipped, WikiFiles(meta)) ELSE {<<>>} :
          LET r == try_wikimedia(search, files)
          IN  /\ res' = r
              /\ pc' = Proceed(r[1], "google_images", "save")
    /\ UNCHANGED <<pureVars, envVars, contextHost, idx, brand, entity, domain, rec, meta, fs, writes, metadata>>

\* the hosts a hit can be on: the brand's own (when a domain is known) or another
HitHosts(d) == {OtherHost} \cup (IF d = NoneStr THEN {} ELSE {d, SubHost(d), Lookalike(d)})

ImageSkipped ==
    { [link |-> FALSE, context |-> Url(OtherHost, <<"/">>), named |-> FALSE, resp |-> FailedResp],
      [link |-> TRUE,  context |-> Url(OtherHost, <<"/">>), named |-> FALSE, resp |-> FailedResp],
      [link |-> TRUE,  context |-> Url(<<>>, <<"/">>), named |-> TRUE, resp |-> FailedResp] }

ImageItems(d, done) ==
    ImageSkipped
    \cup { [link |-> TRUE, context |-> Url(c, <<"/">>), named |-> TRUE, resp |-> r] :
             c \in HitHosts(d), r \in World({Url(OtherHost, <<"/","i">>)}, done) }

GoogleImages ==
    /\ pc = "google_images"
    /\ calls' = Append(calls, "try_google_images")
    /\ \E id \in EnvSet, key \in EnvSet, search \in Answers(meta) :
       \E items \in IF id /\ key /\ search
                    THEN ListsOf(ImageSkipped, ImageItems(domain, meta)) ELSE {<<>>} :
          LET r == try_google_images(domain, id /\ key, search, items)
          IN  /\ res' = r
              /\ contextHost' = image_context_host(id /\ key, search, items)
              /\ pc' = Proceed(r[1], "simple_icons", "save")
    /\ UNCHANGED <<pureVars, envVars, idx, brand, entity, domain, rec, meta, fs, writes, metadata>>

SimpleIcons ==
    /\ pc = "simple_icons"
    /\ calls' = Append(calls, "try_simple_icons")
    /\ \E resp \in World({VendorUrl}, meta) :
          LET r == try_simple_icons(resp)
          IN  /\ res' = r
              /\ pc' = Proceed(r[1], "google_cse", "save")
    /\ UNCHANGED <<pureVars, envVars, contextHost, idx, brand, entity, domain, rec, meta, fs, writes, metadata>>

SearchSkipped == { [link |-> FALSE, resp |-> FailedResp], [link |-> TRUE, resp |-> FailedResp] }

SearchItems(d, done) ==
    SearchSkipped
    \cup { [link |-> TRUE, resp |-> r] :
             r \in World({ Url(c, <<"/","s">>) : c \in HitHosts(d) }, done) }

\* the last stage: with a format the save follows, without one rec is returned as
\* pipeline_official_first left it
GoogleCse ==
    /\ pc = "google_cse"
    /\ calls' = Append(calls, "try_google_cse")
    /\ \E id \in EnvSet, key \in EnvSet, search \in Answers(meta) :
       \E items \in IF id /\ key /\ search
                    THEN ListsOf(SearchSkipped, SearchItems(domain, meta)) ELSE {<<>>} :
          LET r == try_google_cse(domain, id /\ key, search, items)
          IN  /\ res' = r
              /\ pc' = Proceed(r[1], "append", "save")
    /\ UNCHANGED <<pureVars, envVars, contextHost, idx, brand, entity, domain, rec, meta, fs, writes, metadata>>

\* rec["source_url"] = src, rec["official"] = bool(official), and the save by format
FallbackSave ==
    /\ pc = "save"
    /\ \E render \in RenderHeights, same \in BOOLEAN :
          LET sv == save_asset(rec, fs, brand, res[1], res[2], res[3], res[4],
                               CAIRO_OK, PIL_OK, render, same)
          IN  /\ rec' = sv.rec
              /\ fs' = sv.fs
              /\ writes' = writes \o Logged(sv.log, idx)
    /\ pc' = "append"
    /\ UNCHANGED <<pureVars, envVars, contextHost, idx, brand, entity, domain, res, calls, meta, metadata>>

(***************************************************************************)
(* Specifications                                                          *)
(***************************************************************************)
Init == SlugIdle /\ DlIdle /\ NormIdle /\ CandIdle /\ MainInit

Next ==
    \/ MainSkipBlank \/ MainStartBrand \/ MainAppend \/ MainWriteMetadata
    \/ ProcessBrand \/ OfficialCrawl \/ OfficialSave \/ Social \/ SocialSave
    \/ BrandfetchCdn \/ BrandfetchApi \/ Clearbit \/ Wikimedia \/ GoogleImages
    \/ SimpleIcons \/ GoogleCse \/ FallbackSave

Spec == Init /\ [][Next]_vars

\* slugify alone
SlugNext ==
    \/ SlugOnce /\ UNCHANGED <<dlVars, normVars, candVars, mainVars>>
    \/ SlugTwice /\ UNCHANGED <<dlVars, normVars, candVars, mainVars>>

InitSlug == SlugInit /\ DlIdle /\ NormIdle /\ CandIdle /\ MainIdle

SpecSlug == InitSlug /\ [][SlugNext]_vars

\* try_download alone
DlNext == DlCall /\ UNCHANGED <<slugVars, normVars, candVars, mainVars>>

InitDownload == SlugIdle /\ DlInit /\ NormIdle /\ CandIdle /\ MainIdle

SpecDownload == InitDownload /\ [][DlNext]_vars

\* normalize_png alone
NormNext == NormCall /\ UNCHANGED <<slugVars, dlVars, candVars, mainVars>>

InitNormalize == SlugIdle /\ DlIdle /\ NormInit /\ CandIdle /\ MainIdle

SpecNormalize == InitNormalize /\ [][NormNext]_vars

\* candidate_domains alone
CandNext == CandRun /\ UNCHANGED <<slugVars, dlVars, normVars, mainVars>>

InitCandidates == SlugIdle /\ DlIdle /\ NormIdle /\ CandInit /\ MainIdle

SpecCandidates == InitCandidates /\ [][CandNext]_vars

(***************************************************************************)
(* Properties of the pure functions                                        *)
(***************************************************************************)
SlugChars == Range(LowerLetters) \cup Digits \cup {"-"}

\* C9: slugify is idempotent and normalizing.  For every input over the alphabet
\* (letters of both cases, digits, separators), slugify(slugify(x)) = slugify(x);
\* the slug holds only [a-z0-9-], never two hyphens in a row, and neither starts
\* nor ends with a hyphen.
C9_SlugifyIdempotent ==
    /\ Len(slugOut) >= 1 =>
          LET g == slugOut[1]
          IN  /\ Range(g) \subseteq SlugChars
              /\ \A i \in 1..(Len(g) - 1) : ~(g[i] = "-" /\ g[i + 1] = "-")
              /\ g # <<>> => g[1] # "-" /\ g[Len(g)] # "-"
    /\ Len(slugOut) = 2 => slugOut[2] = slugOut[1]

\* " B_-7": upper case, and a run of three separators between two words
C9_Witness ==
    /\ slugIn = <<"B", "_", "-", "7">>
    /\ slugOut = << <<"b", "-", "7">>, <<"b", "-", "7">> >>

\* C6: try_download decides by the payload when it carries a signature.  A payload
\* that starts with the 4-byte PNG magic is classified png and one that starts
\* with the 3-byte JPEG magic is classified jpg, whatever Content-Type is declared.
C6_BytesOverDeclaredType ==
    (dlOut # <<>> /\ dlResp.ok) =>
        /\ Take(dlResp.content.bytes, 4) = B_PNG => dlOut[1][1] = "png"
        /\ Take(dlResp.content.bytes, 3) = B_JPG => dlOut[1][1] = "jpg"

\* C5: with the capability available, normalize_png gives, for every decodable
\* image of width >= 1 and height >= 1, an image of exactly canvas x canvas
\* pixels, and what is composited is in neither dimension larger than the input.
C5_AlwaysCanvasSized ==
    (normOut # <<>> /\ normIn.pil /\ normIn.body.w >= 1 /\ normIn.body.h >= 1) =>
        /\ normOut[1].w = PNG_CANVAS
        /\ normOut[1].h = PNG_CANVAS
        /\ ResizedSize(normIn.body.w, normIn.body.h, PNG_CANVAS)[1] <= normIn.body.w
        /\ ResizedSize(normIn.body.w, normIn.body.h, PNG_CANVAS)[2] <= normIn.body.h

AcmeTokens == { <<"a","c","m","e","r","o","c","k","e","t","s">>,
                <<"a","c","m","e","-","r","o","c","k","e","t","s">> }

\* C7: candidate_domains("Acme Rockets") holds acmerockets.com and
\* acme-rockets.com, each before every other-TLD candidate of the same token, and
\* the whole sequence is the same on every run.
C7_CandidatesStable ==
    candBrand = AcmeRockets =>
        \A r \in 1..Len(candRuns) :
            /\ \A t \in AcmeTokens :
                  /\ (t \o <<".">> \o TLDS[1]) \in Range(candRuns[r])
                  /\ \A k \in 2..Len(TLDS) :
                        IndexOf(candRuns[r], t \o <<".">> \o TLDS[1])
                            < IndexOf(candRuns[r], t \o <<".">> \o TLDS[k])
            /\ candRuns[r] = candRuns[1]

(***************************************************************************)
(* Properties of process_brand and main                                    *)
(***************************************************************************)
StageOrder == <<"find_official_asset_links", "try_social_images",
                "try_brandfetch_cdn", "try_brandfetch_api", "try_clearbit",
                "try_wikimedia", "try_google_images", "try_simple_icons",
                "try_google_cse">>

StageNo(name) == IndexOf(StageOrder, name)

Last(q) == q[Len(q)]

\* the brand being processed has its asset: a stage returned a format
Succeeded == res[1] # None

\* the host of url is dom or a subdomain of dom
HostMatches(url, dom) ==
    /\ url # NoneRec /\ dom # NoneStr
    /\ \/ LowerStr(url.host) = dom
       \/ EndsWith(LowerStr(url.host), <<".">> \o dom)

\* C1: for one brand the stages are attempted in the priority order, each at most
\* once; once a stage has returned an asset no stage is attempted any more, a
\* crawl that succeeds is the only stage called, and the record carries the
\* source and the official flag of the stage that succeeded.
C1_StagePriority ==
    /\ \A i, j \in 1..Len(calls) : i < j => StageNo(calls[i]) < StageNo(calls[j])
    /\ Range(calls) \subseteq Range(StageOrder)
    /\ Succeeded => pc \in {"official_save", "social_save", "save", "append"}
    /\ pc = "official_save" => calls = <<StageOrder[1]>>
    /\ (pc = "append" /\ Succeeded) =>
          /\ rec.source_url = res[3]
          /\ rec.official = IF Last(calls) = StageOrder[1]
                            THEN HostMatches(res[3], domain)
                            ELSE res[4]

\* the Brandfetch API succeeded after two empty stages, and nothing ran after it
C1_Witness ==
    /\ pc = "append" /\ Succeeded
    /\ calls = SubSeq(StageOrder, 1, 4)
    /\ rec.source_url = res[3]

SelfAuthoritative == {"try_social_images", "try_brandfetch_cdn",
                      "try_brandfetch_api", "try_clearbit"}

\* C2 as stated: official is true only if the host of the record's source_url is
\* the resolved domain or a subdomain of it, or the asset came from the social
\* stage or a domain-keyed vendor stage.
C2_OfficialOnlyBySourceHost ==
    (pc = "append" /\ rec.official) =>
        \/ HostMatches(rec.source_url, rec.domain)
        \/ Last(calls) \in SelfAuthoritative

\* C2, amended: official is true only if the host of the record's source_url
\* matches the resolved domain, or the stage is self-authoritative, or the asset
\* came from the Google image search and the host of the page the image was found
\* on (its context link) matches the resolved domain.
C2_OfficialOnlyByHostOrContext ==
    (pc = "append" /\ rec.official) =>
        \/ HostMatches(rec.source_url, rec.domain)
        \/ Last(calls) \in SelfAuthoritative
        \/ /\ Last(calls) = "try_google_images"
           /\ contextHost # NoneStr
           /\ HostMatches(Url(contextHost, <<"/">>), rec.domain)

\* an image hosted elsewhere, found on a page of the brand's domain: official
C2_Witness ==
    /\ pc = "append" /\ rec.official
    /\ Last(calls) = "try_google_images"
    /\ ~HostMatches(rec.source_url, rec.domain)

\* the crawl gave the asset of a brand whose entity has an official website
CrawlOfEntityDomain ==
    /\ pc = "append" /\ Succeeded
    /\ calls = <<StageOrder[1]>>
    /\ get_official_domain_from_entity(entity) # NoneStr

\* C3 as stated: when the entity yields a domain and the crawl finds an asset, the
\* record has that domain and official = true, whatever the download's outcome.
C3_CrawlAlwaysOfficial ==
    CrawlOfEntityDomain =>
        /\ rec.domain = get_official_domain_from_entity(entity)
        /\ rec.official

\* C3, amended: when the entity yields a domain and the crawl finds an asset, the
\* record has that domain, and official is true exactly when the host of the
\* final response URL is that domain or a subdomain of it.
C3_CrawlOfficialByFinalUrl ==
    CrawlOfEntityDomain =>
        /\ rec.domain = get_official_domain_from_entity(entity)
        /\ rec.official <=> HostMatches(rec.source_url, rec.domain)

\* a link of the domain answered from a look-alike host: the record is not official
C3_Witness ==
    /\ CrawlOfEntityDomain
    /\ ~rec.official
    /\ rec.source_url.host = Lookalike(rec.domain)

\* process_brand is about to return for a brand with no entity and no domain
\* whose stages all came back empty
EmptyBrand == pc = "append" /\ entity = NoneRec /\ domain = NoneStr /\ ~Succeeded

\* the record of such a brand
AllEmpty(r) ==
    /\ r.domain = NoneStr /\ r.source_url = NoneRec
    /\ r.saved_svg = NoneRec /\ r.saved_png = NoneRec
    /\ r.notes # NoneStr

BatchDone == pc = "done" /\ metadata = <<meta>>

\* C4: a brand with no entity, no verified domain and every stage empty gets a
\* record with a note and with source_url, saved_svg and saved_png null, every
\* stage that needs no domain having been tried; the record is appended and main
\* goes on to the next row; no record is ever dropped, and a run that is done has
\* read every row and written the metadata document with all the records.
C4_EmptyBrandRecorded ==
    /\ [](EmptyBrand => AllEmpty(rec) /\ calls = <<StageOrder[2]>> \o SubSeq(StageOrder, 6, 9))
    /\ [](pc = "done" => BatchDone /\ idx > Len(rows))
    /\ [][EmptyBrand => meta' = Append(meta, rec) /\ pc' = "main" /\ idx' = idx + 1]_vars
    /\ [][Len(meta') >= Len(meta) /\ SubSeq(meta', 1, Len(meta)) = meta]_vars

\* the first of two brands came back empty, the second was still processed
C4_Witness ==
    /\ BatchDone /\ Len(metadata[1]) = 2
    /\ AllEmpty(metadata[1][1])
    /\ metadata[1][2].source_url # NoneRec

Blank(cell) == \A k \in 1..Len(cell) : cell[k] \in {" ", "\t", "\n", "\r"}

\* the rows before row n that hold a brand
BrandRows(n) == { i \in 1..(n - 1) : i <= Len(rows) /\ ~Blank(rows[i]) }

\* the k-th smallest element of a set of numbers
Nth(S, k) == CHOOSE i \in S : Cardinality({ j \in S : j <= i }) = k

\* C8: meta holds one record per non-blank row read so far, in input order, and
\* nothing for a blank row, for which no stage runs; metadata.json is written once,
\* after the last row, and every asset file is written while its brand is being
\* processed, before metadata.json.
C8_OneRecordPerBrandRow ==
    /\ Len(meta) = Cardinality(BrandRows(idx))
    /\ \A k \in 1..Len(meta) :
          meta[k].brand = Strip(rows[Nth(BrandRows(idx), k)], {" ", "\t", "\n", "\r"})
    /\ pc \notin {"main", "done", "idle"} => idx <= Len(rows) /\ ~Blank(rows[idx])
    /\ Len(metadata) <= 1
    /\ metadata # <<>> => pc = "done" /\ idx > Len(rows) /\ metadata = <<meta>>
    /\ \A i \in 1..Len(writes) :
          IF writes[i].path = MetadataPath
          THEN i = Len(writes) /\ pc = "done"
          ELSE /\ writes[i].row \in BrandRows(idx + 1)
               /\ \A j \in 1..(i - 1) : writes[j].row <= writes[i].row

\* a blank row, then a brand whose svg and preview were written, then metadata.json
C8_Witness ==
    /\ pc = "done" /\ Len(rows) = 2 /\ Blank(rows[1])
    /\ Len(metadata[1]) = 1
    /\ Len(writes) = 3 /\ writes[1].row = 2 /\ writes[2].row = 2
    /\ writes[3].path = MetadataPath

SvgFile == [dir |-> "svg", name |-> rec.slug, ext |-> "svg"]
PngFile == [dir |-> "png", name |-> rec.slug, ext |-> "png"]

\* C10: when the resolution of a brand whose asset is an svg completes,
\* svg/<slug>.svg holds the downloaded bytes and saved_svg names it, with or
\* without a preview; saved_png is set only when the preview was written, and
\* without the capability, or when rendering fails, it stays null.
C10_SvgArchivedVerbatim ==
    (pc = "append" /\ res[1] = "svg") =>
        /\ SvgFile \in DOMAIN fs
        /\ fs[SvgFile] = res[2]
        /\ rec.saved_svg = SvgFile
        /\ rec.source_url # NoneRec
        /\ ~CAIRO_OK => rec.saved_png = NoneRec
        /\ rec.saved_png # NoneRec <=>
              \E i \in 1..Len(writes) : writes[i] = [path |-> PngFile, row |-> idx]

\* cairosvg is there and raises: the svg is archived, the record has no png
C10_Witness ==
    /\ pc = "append" /\ res[1] = "svg" /\ CAIRO_OK
    /\ rec.saved_svg = SvgFile /\ rec.saved_png = NoneRec
    /\ fs[SvgFile] = res[2]

\* C11: when the asset that ends the chain is a jpg, at any stage, png/<slug>.png
\* holds the bytes re-encoded by jpg_to_png and then normalized by normalize_png,
\* and saved_png is set; no record has a source_url with saved_svg and saved_png
\* both null.
C11_PhotoConvertedAndRecorded ==
    /\ (pc = "append" /\ res[1] = "jpg") =>
          /\ PngFile \in DOMAIN fs
          /\ \E same \in BOOLEAN :
                fs[PngFile] = normalize_png(jpg_to_png(res[2], PIL_OK), PNG_CANVAS, PIL_OK, same)
          /\ rec.saved_png # NoneRec
    /\ (pc = "append" /\ rec.source_url # NoneRec) =>
          (rec.saved_svg # NoneRec \/ rec.saved_png # NoneRec)

\* C12: when the resolution of a brand whose asset is a decodable png, not
\* already canvas-sized, completes with the normalization capability available,
\* some file of the archive still holds exactly the downloaded bytes.
C12_RasterOriginalKept ==
    (/\ pc = "append" /\ res[1] = "png" /\ PIL_OK
     /\ res[2].w >= 1 /\ res[2].h >= 1
     /\ ~(res[2].w = PNG_CANVAS /\ res[2].h = PNG_CANVAS)) =>
        \E q \in DOMAIN fs : fs[q] = res[2]

\* C13: in the record process_brand returns, notes is set exactly when no stage
\* gave an asset: source_url, saved_svg and saved_png are null.
C13_NoteIffNoAsset ==
    pc = "append" =>
        (rec.notes # NoneStr <=>
            (rec.source_url = NoneRec /\ rec.saved_svg = NoneRec /\ rec.saved_png = NoneRec))

====
